---- MODULE Spec2Model ----
(***************************************************************************)
(* Model of raywall/go-libs-config, package builder: the Tree Assembler    *)
(* (buildStructure and its helpers), the Deep Merger (mergeMaps), the      *)
(* Dependency Sorter (sortTypesByDependency) and the facade                *)
(* BuildConfigFromPrefixes.                                                *)
(*                                                                         *)
(* Representation.                                                         *)
(*  - A Go string that is a path or a map key is the sequence of its       *)
(*    slash-separated segments, i.e. strings.Split(s, "/"):                *)
(*        "/p/user/name" is <<"", "p", "user", "name">>, "" is <<"">>,     *)
(*        "user" is <<"user">>, "/p/" is <<"", "p", "">>.                  *)
(*    strings.Split is then the representation itself, strings.Join its    *)
(*    inverse, strings.Count(s, "/") is Len(s) - 1.                        *)
(*  - A parameter value (the raw string held by the store) is a TLA+       *)
(*    string; what json.Unmarshal / yaml.Unmarshal make of it is given by  *)
(*    the tables parseParameterValue, yamlUnmarshalMap, yamlUnmarshalList. *)
(*  - An interface{} value is a record [k, v]: k = "str" (Go string),      *)
(*    "num" (float64, v its decimal text), "map" (map[string]interface{},  *)
(*    v a function from keys to values), "seq" ([]interface{}).            *)
(*  - Ranging over a Go map visits the keys in an order the runtime        *)
(*    chooses: a loop whose result depends on it takes the order as an     *)
(*    argument, and the actions draw it with \E.                           *)
(***************************************************************************)
EXTENDS Integers, Sequences, FiniteSets, TLC

VARIABLES
  pc,           \* where the modelled call stands: "call", then "return"
  \* buildStructure(params, basePath, stripPrefix, _)
  bsParams, bsBasePath, bsStripPrefix,
  bsTree,       \* the map buildStructure returns
  bsLevelOrder, \* the order in which the call's range loop visited the levels
  bsChildPerm,  \* the order in which its range loops visited the child keys
  \* mergeMaps(dest, src)
  mmDest0,      \* dest as the caller passed it
  mmSrc,
  mmDest,       \* dest, which mergeMaps changes in place
  \* sortTypesByDependency(&schema)
  stSchema0,    \* the map as the caller passed it
  stSchema,     \* the map, which the sort rebuilds in place
  stErr,        \* the error the sort returns ("none" for nil)
  \* BuildConfigFromPrefixes(ctx, opts)
  opts,         \* BuildOptions
  store,        \* the parameters the parameter store holds
  prefixIdx,    \* the index in opts.Prefixes of the prefix the loop is at
  pending,      \* the parameters of that prefix the store has yet to page out
  allParams,    \* getParametersByPath's allParams, then its sorted result
  configMap,
  ret,          \* what the call returns: [bytes, err]
  calls,        \* the store calls made so far: [idx, ok] each
  merges        \* the prefixes (by index) merged into configMap so far

treeVars == <<bsParams, bsBasePath, bsStripPrefix, bsTree, bsLevelOrder, bsChildPerm>>
mergeVars == <<mmDest0, mmSrc, mmDest>>
sortVars == <<stSchema0, stSchema, stErr>>
buildVars == <<opts, store, prefixIdx, pending, allParams, configMap, ret, calls, merges>>
vars == <<pc, treeVars, mergeVars, sortVars, buildVars>>

\* ------------------------------------------------------------------ bounds

\* Most parameters handed to one buildStructure call.
MaxParams == 3
\* Longest slice among the values handed to mergeMaps.
MaxSeqLen == 1
\* Most entries of the types slice handed to the sort.
MaxTypes == 3
\* Most parameters in the parameter store.
MaxStore == 3
\* Most prefixes in BuildOptions.Prefixes.
MaxPrefixes == 2
\* Most parameters the store returns in one page.
PageSize == 2

\* ------------------------------------------------------------- interface{}

Str(s) == [k |-> "str", v |-> s]
Num(s) == [k |-> "num", v |-> s]
MapN(f) == [k |-> "map", v |-> f]
SeqN(q) == [k |-> "seq", v |-> q]

\* make(map[string]interface{})
EmptyMap == [x \in {} |-> x]

\* A one-segment Go string used as a key.
Key(seg) == <<seg>>

\* m[key] = value
Put(m, key, value) ==
  [x \in DOMAIN m \cup {key} |-> IF x = key THEN value ELSE m[x]]

\* The orders in which a range loop may visit the key set S.
Perms(S) ==
  {f \in [1..Cardinality(S) -> S] : \A i, j \in DOMAIN f : f[i] = f[j] => i = j}

\* The visiting order of the keys S that the order perm induces.
RECURSIVE Restrict(_, _)
Restrict(perm, S) ==
  IF perm = <<>> THEN <<>>
  ELSE IF Head(perm) \in S THEN <<Head(perm)>> \o Restrict(Tail(perm), S)
  ELSE Restrict(Tail(perm), S)

\* --------------------------------------------------------- Path Classifier

\* What is left of segment seg after the string prefix pre, for the segments
\* of the modelled names ("p" is a prefix of "pq"); "none" when pre is no
\* prefix of seg.
SegTrimPrefix(seg, pre) ==
  IF pre = "" THEN seg
  ELSE IF pre = seg THEN ""
  ELSE IF pre = "p" /\ seg = "pq" THEN "q"
  ELSE "none"

\* strings.HasPrefix(s, prefix)
HasPrefix(s, prefix) ==
  /\ Len(prefix) <= Len(s)
  /\ \A i \in 1..(Len(prefix) - 1) : s[i] = prefix[i]
  /\ SegTrimPrefix(s[Len(prefix)], prefix[Len(prefix)]) # "none"

\* strings.TrimPrefix(s, prefix)
TrimPrefix(s, prefix) ==
  IF HasPrefix(s, prefix)
  THEN <<SegTrimPrefix(s[Len(prefix)], prefix[Len(prefix)])>>
         \o SubSeq(s, Len(prefix) + 1, Len(s))
  ELSE s

\* strings.TrimSuffix(s, "/"): one trailing slash, when there is one.
TrimSuffixSlash(s) ==
  IF Len(s) >= 2 /\ s[Len(s)] = "" THEN SubSeq(s, 1, Len(s) - 1) ELSE s

RECURSIVE TrimLeftSlash(_)
TrimLeftSlash(s) ==
  IF Len(s) >= 2 /\ s[1] = "" THEN TrimLeftSlash(Tail(s)) ELSE s

RECURSIVE TrimRightSlash(_)
TrimRightSlash(s) ==
  IF Len(s) >= 2 /\ s[Len(s)] = ""
  THEN TrimRightSlash(SubSeq(s, 1, Len(s) - 1))
  ELSE s

\* strings.Trim(s, "/"): every leading and every trailing slash.
TrimSlash(s) == TrimRightSlash(TrimLeftSlash(s))

extractRelativePath(fullPath, basePath, stripPrefix) ==
  IF stripPrefix
  THEN TrimSlash(TrimPrefix(fullPath, TrimSuffixSlash(basePath)))
  ELSE fullPath

getLastPathSegment(path) == path[Len(path)]

\* ------------------------------------------------------------ Value Parser

\* json.Unmarshal on the values of the modelled store; a value that is not
\* JSON is kept as the string it is.
parseParameterValue(value) ==
  CASE value = "1" -> Num("1")
    [] value = "2" -> Num("2")
    [] value = "30" -> Num("30")
    [] value = "\"Ann\"" -> Str("Ann")
    [] value = "[\"1.2.3.4\"]" -> SeqN(<<Str("1.2.3.4")>>)
    [] value = "[\"5.6.7.8\"]" -> SeqN(<<Str("5.6.7.8")>>)
    [] value = "{\"name\":\"A\"}" ->
         MapN([x \in {Key("name")} |-> Str("A")])
    [] value = "{\"name\":\"B\",\"fields\":[{\"ofType\":\"A\"}]}" ->
         MapN([x \in {Key("name"), Key("fields")} |->
                 IF x = Key("name") THEN Str("B")
                 ELSE SeqN(<<MapN([y \in {Key("ofType")} |-> Str("A")])>>)])
    [] value = "{\"name\":\"C\",\"fields\":[{\"ofType\":\"C\"}]}" ->
         MapN([x \in {Key("name"), Key("fields")} |->
                 IF x = Key("name") THEN Str("C")
                 ELSE SeqN(<<MapN([y \in {Key("ofType")} |-> Str("C")])>>)])
    [] OTHER -> Str(value)

\* yaml.Unmarshal(value, &m), m a map[string]interface{}, on the values of
\* the modelled store: a block or flow mapping decodes, a sequence or a
\* scalar is a type error.
yamlUnmarshalMap(value) ==
  CASE value = "blockedIps: [\"9.9.9.9\"]" ->
         [ok |-> TRUE, m |-> (Key("blockedIps") :> SeqN(<<Str("9.9.9.9")>>))]
    [] value \in {"{\"name\":\"A\"}",
                  "{\"name\":\"B\",\"fields\":[{\"ofType\":\"A\"}]}",
                  "{\"name\":\"C\",\"fields\":[{\"ofType\":\"C\"}]}"} ->
         [ok |-> TRUE, m |-> parseParameterValue(value).v]
    [] OTHER -> [ok |-> FALSE, m |-> EmptyMap]

\* yaml.Unmarshal(value, &l), l a []interface{}: a sequence decodes, a
\* mapping or a scalar is a type error.
yamlUnmarshalList(value) ==
  CASE value = "[\"1.2.3.4\"]" -> [ok |-> TRUE, l |-> <<Str("1.2.3.4")>>]
    [] value = "[\"5.6.7.8\"]" -> [ok |-> TRUE, l |-> <<Str("5.6.7.8")>>]
    [] OTHER -> [ok |-> FALSE, l |-> <<>>]

\* ---------------------------------------------------------- Tree Assembler

\* levels[levelKey][childKey] = param
PutLevel(levels, levelKey, childKey, param) ==
  Put(levels, levelKey,
      Put(IF levelKey \in DOMAIN levels THEN levels[levelKey] ELSE EmptyMap,
          childKey, param))

\* organizeParameter putting a one-segment parameter in the root level.
organizeParameter_DirectIsRoot(levels, param, basePath, stripPrefix) ==
  LET relativePath == extractRelativePath(param.Name, basePath, stripPrefix)
  IN IF Len(relativePath) = 1
     THEN PutLevel(levels, Key("."), Key(getLastPathSegment(param.Name)), param)
     ELSE PutLevel(levels, Key(relativePath[1]), Tail(relativePath), param)

\* One pass of organizeParametersByLevel's loop.
organizeParameter(levels, param, basePath, stripPrefix) ==
  LET relativePath == extractRelativePath(param.Name, basePath, stripPrefix)
  IN IF relativePath = <<"">>
     THEN PutLevel(levels, Key("."), Key(getLastPathSegment(param.Name)), param)
     ELSE IF Len(relativePath) = 1
          THEN PutLevel(levels, Key(relativePath[1]), Key("."), param)
          ELSE PutLevel(levels, Key(relativePath[1]), Tail(relativePath), param)

RECURSIVE organizeFrom(_, _, _, _)
organizeFrom(levels, params, basePath, stripPrefix) ==
  IF params = <<>> THEN levels
  ELSE organizeFrom(organizeParameter(levels, Head(params), basePath, stripPrefix),
                    Tail(params), basePath, stripPrefix)

organizeParametersByLevel(params, basePath, stripPrefix) ==
  organizeFrom(EmptyMap, params, basePath, stripPrefix)

\* order: the children of levelParams in the order the range loop visits them.
RECURSIVE buildArrayFromMap(_, _)
buildArrayFromMap(levelParams, order) ==
  IF order = <<>> THEN <<>>
  ELSE <<parseParameterValue(levelParams[Head(order)].Value)>>
         \o buildArrayFromMap(levelParams, Tail(order))

\* shouldBeArray without the test that the common depth is 0.
shouldBeArray_AnyCommonDepth(levelParams, order) ==
  IF Len(order) <= 1 THEN FALSE
  ELSE LET firstDepth == Len(order[1]) - 1
       IN ~ \E i \in 2..Len(order) : Len(order[i]) - 1 # firstDepth

\* shouldBeArray asking for a depth above 0, so that plain children make a map.
shouldBeArray_NeverForPlain(levelParams, order) ==
  IF Len(order) <= 1 THEN FALSE
  ELSE LET firstDepth == Len(order[1]) - 1
       IN IF \E i \in 2..Len(order) : Len(order[i]) - 1 # firstDepth
          THEN FALSE
          ELSE firstDepth > 0

shouldBeArray(levelParams, order) ==
  IF Len(order) <= 1 THEN FALSE
  ELSE LET firstDepth == Len(order[1]) - 1
       IN IF \E i \in 2..Len(order) : Len(order[i]) - 1 # firstDepth
          THEN FALSE
          ELSE firstDepth = 0

\* buildNestedObject: one chain of maps ending in the value.
RECURSIVE nestedObjectFrom(_, _)
nestedObjectFrom(pathParts, value) ==
  IF Len(pathParts) = 1 THEN Put(EmptyMap, Key(pathParts[1]), value)
  ELSE Put(EmptyMap, Key(pathParts[1]), MapN(nestedObjectFrom(Tail(pathParts), value)))

buildNestedObject(childPath, param) ==
  nestedObjectFrom(childPath, parseParameterValue(param.Value))

\* insertPath that leaves a value that is not a map where it is.
RECURSIVE insertPath_KeepsScalar(_, _, _)
insertPath_KeepsScalar(current, pathParts, value) ==
  LET part == Key(pathParts[1])
  IN IF Len(pathParts) = 1 THEN Put(current, part, value)
     ELSE IF part \in DOMAIN current /\ current[part].k # "map" THEN current
     ELSE LET childMap == IF part \in DOMAIN current THEN current[part].v ELSE EmptyMap
          IN Put(current, part, MapN(insertPath_KeepsScalar(childMap, Tail(pathParts), value)))

\* The inner loop of buildNestedStructure: walk pathParts from current,
\* creating a map where there is none and replacing what is not a map.
RECURSIVE insertPath(_, _, _)
insertPath(current, pathParts, value) ==
  LET part == Key(pathParts[1])
  IN IF Len(pathParts) = 1 THEN Put(current, part, value)
     ELSE LET childMap == IF part \in DOMAIN current /\ current[part].k = "map"
                          THEN current[part].v
                          ELSE EmptyMap
          IN Put(current, part, MapN(insertPath(childMap, Tail(pathParts), value)))

RECURSIVE nestedStructureFrom(_, _, _)
nestedStructureFrom(result, levelParams, order) ==
  IF order = <<>> THEN result
  ELSE nestedStructureFrom(
         insertPath(result, Head(order), parseParameterValue(levelParams[Head(order)].Value)),
         levelParams, Tail(order))

buildNestedStructure(levelParams, order) ==
  nestedStructureFrom(EmptyMap, levelParams, order)

processRootLevel(result, levelParams, order) ==
  IF Len(order) > 1
  THEN Put(result, Key("items"), SeqN(buildArrayFromMap(levelParams, order)))
  ELSE IF order = <<>> THEN result
       ELSE Put(result, order[1], parseParameterValue(levelParams[order[1]].Value))

processNestedLevel(result, levelKey, levelParams, order) ==
  IF Len(order) = 1
  THEN IF order[1] = Key(".")
       THEN Put(result, levelKey, parseParameterValue(levelParams[order[1]].Value))
       ELSE Put(result, levelKey, MapN(buildNestedObject(order[1], levelParams[order[1]])))
  ELSE IF shouldBeArray(levelParams, order)
       THEN Put(result, levelKey, SeqN(buildArrayFromMap(levelParams, order)))
       ELSE Put(result, levelKey, MapN(buildNestedStructure(levelParams, order)))

\* levelOrder: the level keys in the order the range loop visits them;
\* childPerm: an order of all child keys, which gives each level its own.
RECURSIVE genericStructureFrom(_, _, _, _)
genericStructureFrom(result, levels, levelOrder, childPerm) ==
  IF levelOrder = <<>> THEN result
  ELSE LET levelKey == Head(levelOrder)
           levelParams == levels[levelKey]
           order == Restrict(childPerm, DOMAIN levelParams)
       IN genericStructureFrom(
            IF levelKey = Key(".")
            THEN processRootLevel(result, levelParams, order)
            ELSE processNestedLevel(result, levelKey, levelParams, order),
            levels, Tail(levelOrder), childPerm)

buildGenericStructure(levels, levelOrder, childPerm) ==
  genericStructureFrom(EmptyMap, levels, levelOrder, childPerm)

\* All child keys of all levels.
ChildKeys(levels) == UNION {DOMAIN levels[l] : l \in DOMAIN levels}

buildStructure(params, basePath, stripPrefix, levelOrder, childPerm) ==
  IF Len(params) = 0 THEN EmptyMap
  ELSE buildGenericStructure(organizeParametersByLevel(params, basePath, stripPrefix),
                             levelOrder, childPerm)

\* ------------------------------------------------------------- Deep Merger

RECURSIVE mergeMaps(_, _)

\* mergeKey as a shallow merge: two maps are not merged, src's replaces dest's.
mergeKey_Shallow(dest, src, key) ==
  IF key \in DOMAIN dest /\ dest[key].k = "seq" /\ src[key].k = "seq"
  THEN Put(dest, key, SeqN(dest[key].v \o src[key].v))
  ELSE Put(dest, key, src[key])

\* One pass of mergeMaps' loop, for key of src.
mergeKey(dest, src, key) ==
  IF key \in DOMAIN dest /\ dest[key].k = "map" /\ src[key].k = "map"
  THEN Put(dest, key, MapN(mergeMaps(dest[key].v, src[key].v)))
  ELSE IF key \in DOMAIN dest /\ dest[key].k = "seq" /\ src[key].k = "seq"
       THEN Put(dest, key, SeqN(dest[key].v \o src[key].v))
       ELSE Put(dest, key, src[key])

\* The loop over the keys of src not yet visited; a pass reads and writes
\* dest[key] alone, so the visiting order does not show in the result.
RECURSIVE mergeFrom(_, _, _)
mergeFrom(dest, src, keys) ==
  IF keys = {} THEN dest
  ELSE LET key == CHOOSE x \in keys : TRUE
       IN mergeFrom(mergeKey(dest, src, key), src, keys \ {key})

mergeMaps(dest, src) == mergeFrom(dest, src, DOMAIN src)

\* -------------------------------------------------------- Dependency Sorter

\* m[key].(string): the string under key, as a sequence of none or one.
StringAt(m, key) ==
  IF key \in DOMAIN m /\ m[key].k = "str" THEN <<m[key].v>> ELSE <<>>

\* m[key].([]interface{}): the elements of the slice under key, or none.
SliceAt(m, key) ==
  IF key \in DOMAIN m /\ m[key].k = "seq" THEN m[key].v ELSE <<>>

\* The first loop: typeDefinitions, whose keys are typeNames.
RECURSIVE typeDefinitionsFrom(_, _)
typeDefinitionsFrom(typeDefinitions, rawTypes) ==
  IF rawTypes = <<>> THEN typeDefinitions
  ELSE LET t == Head(rawTypes)
           name == IF t.k = "map" THEN StringAt(t.v, Key("name")) ELSE <<>>
       IN typeDefinitionsFrom(
            IF name = <<>> THEN typeDefinitions ELSE Put(typeDefinitions, name[1], t),
            Tail(rawTypes))

\* The custom types one ofType names.
ofTypeDependency(m, typeNames) ==
  IF m.k # "map" THEN <<>>
  ELSE SelectSeq(StringAt(m.v, Key("ofType")), LAMBDA d : d \in typeNames)

\* argsDependencies with the args' references left out of the graph.
argsDependencies_Ignored(args, typeNames) == <<>>

RECURSIVE argsDependencies(_, _)
argsDependencies(args, typeNames) ==
  IF args = <<>> THEN <<>>
  ELSE ofTypeDependency(Head(args), typeNames) \o argsDependencies(Tail(args), typeNames)

\* The dependencies the loop over fields records, in its order: a field's
\* ofType, then its args' ofTypes.
RECURSIVE fieldsDependencies(_, _)
fieldsDependencies(fields, typeNames) ==
  IF fields = <<>> THEN <<>>
  ELSE LET f == Head(fields)
       IN (IF f.k # "map" THEN <<>>
           ELSE ofTypeDependency(f, typeNames)
                  \o argsDependencies(SliceAt(f.v, Key("args")), typeNames))
          \o fieldsDependencies(Tail(fields), typeNames)

\* addEdges with grauEntrada[name]++ left out.
RECURSIVE addEdges_NoInDegree(_, _, _)
addEdges_NoInDegree(graph, name, dependencies) ==
  IF dependencies = <<>> THEN graph
  ELSE LET d == Head(dependencies)
       IN addEdges_NoInDegree(
            [adjacencia |-> [graph.adjacencia EXCEPT ![d] = Append(@, name)],
             grauEntrada |-> graph.grauEntrada],
            name, Tail(dependencies))

\* adjacencia[dependencyName] = append(..., name); grauEntrada[name]++
RECURSIVE addEdges(_, _, _)
addEdges(graph, name, dependencies) ==
  IF dependencies = <<>> THEN graph
  ELSE LET d == Head(dependencies)
       IN addEdges([adjacencia |-> [graph.adjacencia EXCEPT ![d] = Append(@, name)],
                    grauEntrada |-> [graph.grauEntrada EXCEPT ![name] = @ + 1]],
                   name, Tail(dependencies))

\* The loop over typeNames that fills adjacencia and grauEntrada.
RECURSIVE graphFrom(_, _, _)
graphFrom(graph, typeDefinitions, nameOrder) ==
  IF nameOrder = <<>> THEN graph
  ELSE LET name == Head(nameOrder)
           typeDef == typeDefinitions[name].v
       IN graphFrom(
            addEdges(graph, name,
                     fieldsDependencies(SliceAt(typeDef, Key("fields")),
                                        DOMAIN typeDefinitions)),
            typeDefinitions, Tail(nameOrder))

\* The initial queue: the names of in-degree 0, in the order of the loop.
initialFila(grauEntrada, degOrder) ==
  SelectSeq(degOrder, LAMBDA name : grauEntrada[name] = 0)

\* The loop over adjacencia[currentName].
RECURSIVE relax(_, _)
relax(q, neighbors) ==
  IF neighbors = <<>> THEN q
  ELSE LET n == Head(neighbors)
           g == [q.grauEntrada EXCEPT ![n] = @ - 1]
       IN relax([fila |-> IF g[n] = 0 THEN Append(q.fila, n) ELSE q.fila,
                 grauEntrada |-> g],
                Tail(neighbors))

\* for len(fila) > 0 { ... }
RECURSIVE kahnLoop(_, _, _, _)
kahnLoop(q, sortedTypes, adjacencia, typeDefinitions) ==
  IF q.fila = <<>> THEN sortedTypes
  ELSE LET currentName == Head(q.fila)
       IN kahnLoop(relax([fila |-> Tail(q.fila), grauEntrada |-> q.grauEntrada],
                         adjacencia[currentName]),
                   Append(sortedTypes, typeDefinitions[currentName]),
                   adjacencia, typeDefinitions)

\* The names declared by the types slice of schema (none when there is no
\* such slice): the key set of typeNames and of grauEntrada.
typeNamesOf(schema) ==
  IF Key("types") \in DOMAIN schema /\ schema[Key("types")].k = "seq"
  THEN DOMAIN typeDefinitionsFrom(EmptyMap, schema[Key("types")].v)
  ELSE {}

\* sortTypesByDependency(&schema): the error returned ("none" for nil) and
\* the map as the call leaves it. nameOrder is the order of the range over
\* typeNames, degOrder that of the range over grauEntrada.
sortTypesByDependency(schema, nameOrder, degOrder) ==
  IF Key("types") \notin DOMAIN schema
  THEN [err |-> "types not found", schema |-> schema]
  ELSE IF schema[Key("types")].k # "seq"
  THEN [err |-> "types not a slice", schema |-> schema]
  ELSE IF Key("query") \notin DOMAIN schema
  THEN [err |-> "query not found", schema |-> schema]
  ELSE
    LET rawTypes == schema[Key("types")].v
        query == schema[Key("query")]
        typeDefinitions == typeDefinitionsFrom(EmptyMap, rawTypes)
        typeNames == DOMAIN typeDefinitions
        graph == graphFrom([adjacencia |-> [n \in typeNames |-> <<>>],
                            grauEntrada |-> [n \in typeNames |-> 0]],
                           typeDefinitions, nameOrder)
        sortedTypes == kahnLoop([fila |-> initialFila(graph.grauEntrada, degOrder),
                                 grauEntrada |-> graph.grauEntrada],
                                <<>>, graph.adjacencia, typeDefinitions)
    IN IF Len(sortedTypes) # Len(rawTypes)
       THEN [err |-> "circular dependency", schema |-> schema]
       ELSE [err |-> "none",
             schema |-> Put(Put(EmptyMap, Key("types"), SeqN(sortedTypes)),
                            Key("query"), query)]

\* ------------------------------------------------------ YAML-rules document

NoError == [kind |-> "none", what |-> <<>>]
Error(kind, what) == [kind |-> kind, what |-> what]

\* The loop of buildYAMLStructure from result on: the error returned and,
\* when it is nil, the map.
RECURSIVE yamlStructureFrom(_, _, _, _)
yamlStructureFrom(result, params, basePath, stripPrefix) ==
  IF params = <<>> THEN [err |-> NoError, result |-> result]
  ELSE
    LET param == Head(params)
        relativePath == extractRelativePath(param.Name, basePath, stripPrefix)
        relative == IF relativePath = <<"">>
                    THEN Key(getLastPathSegment(param.Name))
                    ELSE relativePath
        m == yamlUnmarshalMap(param.Value)
        l == yamlUnmarshalList(param.Value)
    IN IF Len(relativePath) > 1
       THEN [err |-> Error("nested", param.Name), result |-> EmptyMap]
       ELSE IF m.ok
       THEN yamlStructureFrom(mergeMaps(result, m.m), Tail(params), basePath, stripPrefix)
       ELSE IF ~l.ok
       THEN [err |-> Error("parse", param.Name), result |-> EmptyMap]
       ELSE IF relative \in DOMAIN result
       THEN [err |-> Error("duplicate", relative), result |-> EmptyMap]
       ELSE yamlStructureFrom(Put(result, relative, SeqN(l.l)), Tail(params),
                              basePath, stripPrefix)

buildYAMLStructure(params, basePath, stripPrefix) ==
  yamlStructureFrom(EmptyMap, params, basePath, stripPrefix)

\* yaml.Marshal, json.Marshal and json.MarshalIndent: the bytes written, as
\* the format and the document they encode.
Marshal(format, doc) == [format |-> format, doc |-> doc]

\* ================================================================ inputs

\* Every sequence over S of at most n elements.
BoundedSeq(S, n) == UNION {[1..m -> S] : m \in 0..n}

\* Every map with keys among K and values in V.
MapsOver(K, V) == UNION {[D -> V] : D \in SUBSET K}

\* The parameter names of the model in Go's string order (byte-wise <), the
\* order sort.Slice gives them in getParametersByPath.
NameOrder ==
  << <<"", "p">>,
     <<"", "p", "">>,
     <<"", "p", "a">>,
     <<"", "p", "b">>,
     <<"", "p", "items">>,
     <<"", "p", "p">>,
     <<"", "p", "user">>,
     <<"", "p", "user", "addr">>,
     <<"", "p", "user", "addr", "city">>,
     <<"", "p", "user", "age">>,
     <<"", "p", "user", "name">>,
     <<"", "pq">>,
     <<"", "r", "a">>,
     <<"", "r", "bad">>,
     <<"", "r", "blockedIps">>,
     <<"", "r", "z">>,
     <<"", "s", "blockedIps">>,
     <<"", "s", "query">>,
     <<"", "s", "types", "A">>,
     <<"", "s", "types", "B">>,
     <<"", "s", "types", "C">> >>

NameRank(name) == CHOOSE i \in DOMAIN NameOrder : NameOrder[i] = name

\* sort.Slice(allParams, by Name) on parameters of distinct names.
RECURSIVE SortByName(_)
SortByName(S) ==
  IF S = {} THEN <<>>
  ELSE LET first == CHOOSE x \in S : \A y \in S : NameRank(x.Name) <= NameRank(y.Name)
       IN <<first>> \o SortByName(S \ {first})

Param(name, value) == [Name |-> name, Value |-> value]

\* The parameters buildStructure is tried on.
TreeParams ==
  { Param(<<"", "p">>, "1"),
    Param(<<"", "p", "">>, "2"),
    Param(<<"", "p", "a">>, "1"),
    Param(<<"", "p", "b">>, "2"),
    Param(<<"", "p", "items">>, "\"Ann\""),
    Param(<<"", "p", "p">>, "30"),
    Param(<<"", "p", "user">>, "plain"),
    Param(<<"", "p", "user", "addr">>, "1"),
    Param(<<"", "p", "user", "addr", "city">>, "Lisboa"),
    Param(<<"", "p", "user", "age">>, "30"),
    Param(<<"", "p", "user", "name">>, "\"Ann\""),
    Param(<<"", "pq">>, "2") }

\* "/p" and "/p/"
TreeBasePaths == { <<"", "p">>, <<"", "p", "">> }

\* The values mergeMaps is tried on: scalars, slices, and maps three deep.
MergeLeaves ==
  {Num("1")} \cup {SeqN(q) : q \in BoundedSeq({Num("1"), Num("2")}, MaxSeqLen)}
MergeInner2 == {MapN(m) : m \in MapsOver({Key("y")}, MergeLeaves)}
MergeInner1 == {MapN(m) : m \in MapsOver({Key("x")}, MergeLeaves \cup MergeInner2)}
MergeInputs == MapsOver({Key("a"), Key("b")}, MergeLeaves \cup MergeInner1)

\* The typed entries the sort is tried on.
FieldOf(t) == MapN(Key("ofType") :> Str(t))
ArgOf(t) == MapN(Key("name") :> Str("id") @@ Key("ofType") :> Str(t))
Entry(name, fields) == MapN(Key("name") :> Str(name) @@ Key("fields") :> SeqN(fields))
SortEntries ==
  { MapN(Key("name") :> Str("A")),
    Entry("A", <<FieldOf("B")>>),
    Entry("B", <<FieldOf("A")>>),
    Entry("B", <<MapN(Key("name") :> Str("f") @@ Key("args") :> SeqN(<<ArgOf("C")>>))>>),
    Entry("C", <<FieldOf("String")>>),
    Entry("C", <<FieldOf("A")>>),
    Entry("C", <<Str("junk"),
                 MapN(Key("ofType") :> Str("A") @@ Key("args") :> SeqN(<<ArgOf("B")>>))>>),
    Entry("C", <<FieldOf("C")>>),
    MapN(Key("kind") :> Str("OBJECT")) }

\* The documents handed to the sort: with or without a types slice, a query
\* and one more top-level key.
SortSchemas ==
  { [key \in ks |->
       IF key = Key("types") THEN ts
       ELSE IF key = Key("query") THEN MapN(Key("name") :> Str("Query"))
       ELSE Str("1.0")] :
    ks \in SUBSET {Key("types"), Key("query"), Key("version")},
    ts \in {SeqN(q) : q \in BoundedSeq(SortEntries, MaxTypes)} \cup {Str("none")} }

\* ================================================================ Tree

IdleTree ==
  /\ bsParams = <<>> /\ bsBasePath = <<"">> /\ bsStripPrefix = FALSE /\ bsTree = EmptyMap
  /\ bsLevelOrder = <<>> /\ bsChildPerm = <<>>
IdleMerge == mmDest0 = EmptyMap /\ mmSrc = EmptyMap /\ mmDest = EmptyMap
IdleSort == stSchema0 = EmptyMap /\ stSchema = EmptyMap /\ stErr = "none"
IdleBuild ==
  /\ opts = <<>> /\ store = {} /\ prefixIdx = 0 /\ pending = {} /\ allParams = <<>>
  /\ configMap = EmptyMap /\ ret = <<>> /\ calls = <<>> /\ merges = <<>>

InitTree ==
  /\ pc = "call"
  /\ \E S \in SUBSET TreeParams :
       /\ Cardinality(S) <= MaxParams
       /\ bsParams = SortByName(S)
  /\ bsBasePath \in TreeBasePaths
  /\ bsStripPrefix \in BOOLEAN
  /\ bsTree = EmptyMap
  /\ bsLevelOrder = <<>> /\ bsChildPerm = <<>>
  /\ IdleMerge /\ IdleSort /\ IdleBuild

\* The levels of the call's parameters.
bsLevels == organizeParametersByLevel(bsParams, bsBasePath, bsStripPrefix)

\* One call of buildStructure, the two range orders drawn.
BuildStructure ==
  /\ pc = "call"
  /\ \E levelOrder \in Perms(DOMAIN bsLevels), childPerm \in Perms(ChildKeys(bsLevels)) :
       /\ bsTree' = buildStructure(bsParams, bsBasePath, bsStripPrefix, levelOrder, childPerm)
       /\ bsLevelOrder' = levelOrder
       /\ bsChildPerm' = childPerm
  /\ pc' = "return"
  /\ UNCHANGED <<bsParams, bsBasePath, bsStripPrefix, mergeVars, sortVars, buildVars>>

NextTree == BuildStructure
SpecTree == InitTree /\ [][NextTree]_vars

\* ================================================================ Merge

InitMerge ==
  /\ pc = "call"
  /\ mmDest0 \in MergeInputs
  /\ mmSrc \in MergeInputs
  /\ mmDest = mmDest0
  /\ IdleTree /\ IdleSort /\ IdleBuild

\* One call of mergeMaps.
MergeMaps ==
  /\ pc = "call"
  /\ mmDest' = mergeMaps(mmDest, mmSrc)
  /\ pc' = "return"
  /\ UNCHANGED <<mmDest0, mmSrc, treeVars, sortVars, buildVars>>

NextMerge == MergeMaps
SpecMerge == InitMerge /\ [][NextMerge]_vars

\* ================================================================ Sort

InitSort ==
  /\ pc = "call"
  /\ stSchema0 \in SortSchemas
  /\ stSchema = stSchema0
  /\ stErr = "none"
  /\ IdleTree /\ IdleMerge /\ IdleBuild

\* One call of sortTypesByDependency, the two range orders drawn.
SortTypes ==
  /\ pc = "call"
  /\ \E nameOrder \in Perms(typeNamesOf(stSchema)), degOrder \in Perms(typeNamesOf(stSchema)) :
       LET r == sortTypesByDependency(stSchema, nameOrder, degOrder)
       IN stSchema' = r.schema /\ stErr' = r.err
  /\ pc' = "return"
  /\ UNCHANGED <<stSchema0, treeVars, mergeVars, buildVars>>

NextSort == SortTypes
SpecSort == InitSort /\ [][NextSort]_vars

\* ================================================================ Build

Bool == BOOLEAN

\* The parameters the store may hold.
BuildParams ==
  { Param(<<"", "r", "a">>, "blockedIps: [\"9.9.9.9\"]"),
    Param(<<"", "r", "bad">>, "30"),
    Param(<<"", "r", "blockedIps">>, "[\"1.2.3.4\"]"),
    Param(<<"", "r", "z">>, "blockedIps: [\"9.9.9.9\"]"),
    Param(<<"", "s", "blockedIps">>, "[\"5.6.7.8\"]"),
    Param(<<"", "s", "query">>, "{\"name\":\"A\"}"),
    Param(<<"", "s", "types", "A">>, "{\"name\":\"A\"}"),
    Param(<<"", "s", "types", "B">>, "{\"name\":\"B\",\"fields\":[{\"ofType\":\"A\"}]}"),
    Param(<<"", "s", "types", "C">>, "{\"name\":\"C\",\"fields\":[{\"ofType\":\"C\"}]}") }

\* "/r" and "/s"
BuildPrefixes == { <<"", "r">>, <<"", "s">> }

\* GetParametersByPath, Recursive: the parameters in the hierarchy under path.
StoreUnder(path) ==
  LET base == TrimSuffixSlash(path)
  IN {p \in store : Len(p.Name) > Len(base) /\ SubSeq(p.Name, 1, Len(base)) = base}

\* Where the call stands when its loop reaches index i of opts.Prefixes.
LoopAt(o, i) ==
  IF i <= Len(o.Prefixes) THEN "fetch"
  ELSE IF o.YAMLRules THEN "marshal"
  ELSE IF o.SortByDependencies THEN "sort"
  ELSE "marshal"

InitBuild ==
  /\ opts \in [Prefixes : BoundedSeq(BuildPrefixes, MaxPrefixes),
               StripPrefix : Bool, JSONOutput : Bool,
               YAMLRules : Bool, SortByDependencies : Bool]
  /\ store \in {S \in SUBSET BuildParams : Cardinality(S) <= MaxStore}
  /\ pc = LoopAt(opts, 1)
  /\ prefixIdx = 1
  /\ pending = IF Len(opts.Prefixes) >= 1 THEN StoreUnder(opts.Prefixes[1]) ELSE {}
  /\ allParams = <<>>
  /\ configMap = EmptyMap
  /\ ret = <<>>
  /\ calls = <<>>
  /\ merges = <<>>
  /\ IdleTree /\ IdleMerge /\ IdleSort

prefix == opts.Prefixes[prefixIdx]

\* return bytes, err
Return(bytes, err) ==
  /\ ret' = [bytes |-> bytes, err |-> err]
  /\ pc' = "done"

\* The loop goes on to the next prefix, or leaves.
NextPrefix ==
  /\ prefixIdx' = prefixIdx + 1
  /\ pc' = LoopAt(opts, prefixIdx + 1)
  /\ pending' = IF prefixIdx + 1 <= Len(opts.Prefixes)
                THEN StoreUnder(opts.Prefixes[prefixIdx + 1])
                ELSE {}
  /\ allParams' = <<>>

\* The number of parameters in the next page of the pending ones.
PageLen == IF Cardinality(pending) < PageSize THEN Cardinality(pending) ELSE PageSize

\* getParametersByPath: one call of the store that returns a page, any
\* PageLen of the pending parameters; after the last page (NextToken nil)
\* allParams is sorted by name and returned.
FetchPage ==
  /\ pc = "fetch"
  /\ \E page \in SUBSET pending :
       /\ Cardinality(page) = PageLen
       /\ LET got == allParams \o SortByName(page)
          IN IF pending \ page = {}
             THEN allParams' = SortByName({got[i] : i \in DOMAIN got}) /\ pc' = "build"
             ELSE allParams' = got /\ pc' = "fetch"
       /\ pending' = pending \ page
  /\ calls' = Append(calls, [idx |-> prefixIdx, ok |-> TRUE])
  /\ UNCHANGED <<opts, store, prefixIdx, configMap, ret, merges, treeVars, mergeVars, sortVars>>

\* FetchFails with the error dropped: the loop goes on to the next prefix.
FetchFails_SkipsPrefix ==
  /\ pc = "fetch"
  /\ calls' = Append(calls, [idx |-> prefixIdx, ok |-> FALSE])
  /\ NextPrefix
  /\ UNCHANGED <<opts, store, configMap, ret, merges, treeVars, mergeVars, sortVars>>

\* getParametersByPath: one call of the store that fails; the error goes
\* up, wrapped with the prefix.
FetchFails ==
  /\ pc = "fetch"
  /\ calls' = Append(calls, [idx |-> prefixIdx, ok |-> FALSE])
  /\ Return(<<>>, Error("fetch", prefix))
  /\ UNCHANGED <<opts, store, prefixIdx, pending, allParams, configMap, merges,
                 treeVars, mergeVars, sortVars>>

\* BuildYAMLPrefix returning, with the error, what was merged so far.
BuildYAMLPrefix_ReturnsPartial ==
  /\ pc = "build"
  /\ opts.YAMLRules
  /\ LET r == buildYAMLStructure(allParams, prefix, opts.StripPrefix)
     IN IF r.err # NoError
        THEN /\ Return(<<Marshal("yaml", configMap)>>, r.err)
             /\ UNCHANGED <<prefixIdx, pending, allParams, configMap, merges>>
        ELSE /\ configMap' = mergeMaps(configMap, r.result)
             /\ merges' = Append(merges, prefixIdx)
             /\ NextPrefix
             /\ UNCHANGED ret
  /\ UNCHANGED <<opts, store, calls, treeVars, mergeVars, sortVars>>

\* YAML-rules mode: buildYAMLStructure on the prefix's parameters, then the
\* merge into configMap.
BuildYAMLPrefix ==
  /\ pc = "build"
  /\ opts.YAMLRules
  /\ LET r == buildYAMLStructure(allParams, prefix, opts.StripPrefix)
     IN IF r.err # NoError
        THEN /\ Return(<<>>, r.err)
             /\ UNCHANGED <<prefixIdx, pending, allParams, configMap, merges>>
        ELSE /\ configMap' = mergeMaps(configMap, r.result)
             /\ merges' = Append(merges, prefixIdx)
             /\ NextPrefix
             /\ UNCHANGED ret
  /\ UNCHANGED <<opts, store, calls, treeVars, mergeVars, sortVars>>

\* JSON mode: buildStructure on the prefix's parameters, then the merge.
BuildJSONPrefix ==
  /\ pc = "build"
  /\ ~opts.YAMLRules
  /\ LET levels == organizeParametersByLevel(allParams, prefix, opts.StripPrefix)
     IN \E levelOrder \in Perms(DOMAIN levels), childPerm \in Perms(ChildKeys(levels)) :
          configMap' = mergeMaps(configMap,
                                 buildStructure(allParams, prefix, opts.StripPrefix,
                                                levelOrder, childPerm))
  /\ merges' = Append(merges, prefixIdx)
  /\ NextPrefix
  /\ UNCHANGED <<opts, store, ret, calls, treeVars, mergeVars, sortVars>>

\* JSON mode with SortByDependencies: the sort of the merged document.
SortConfig ==
  /\ pc = "sort"
  /\ \E nameOrder \in Perms(typeNamesOf(configMap)), degOrder \in Perms(typeNamesOf(configMap)) :
       LET r == sortTypesByDependency(configMap, nameOrder, degOrder)
       IN IF r.err # "none"
          THEN /\ Return(<<>>, Error("sort", <<r.err>>))
               /\ UNCHANGED configMap
          ELSE /\ configMap' = r.schema
               /\ pc' = "marshal"
               /\ UNCHANGED ret
  /\ UNCHANGED <<opts, store, prefixIdx, pending, allParams, calls, merges,
                 treeVars, mergeVars, sortVars>>

\* The return of the marshalled document.
MarshalConfig ==
  /\ pc = "marshal"
  /\ Return(<<Marshal(IF opts.YAMLRules THEN "yaml"
                      ELSE IF opts.JSONOutput THEN "json-indent"
                      ELSE "json",
                      configMap)>>,
            NoError)
  /\ UNCHANGED <<opts, store, prefixIdx, pending, allParams, configMap, calls, merges,
                 treeVars, mergeVars, sortVars>>

NextBuild ==
  \/ FetchPage
  \/ FetchFails
  \/ BuildYAMLPrefix
  \/ BuildJSONPrefix
  \/ SortConfig
  \/ MarshalConfig

SpecBuild == InitBuild /\ [][NextBuild]_vars

\* ================================================================ claims

\* ---- the Dependency Sorter (C1, C2, C4), under SpecSort

TypesKey == Key("types")

\* The types slice the sort was given, and the one it left.
TypesIn == stSchema0[TypesKey].v
TypesOut == stSchema[TypesKey].v

\* Entry e declares the type named n.
Declares(e, n) ==
  e.k = "map" /\ Key("name") \in DOMAIN e.v /\ e.v[Key("name")] = Str(n)

\* m is a mapping whose ofType is n.
OfTypeIs(m, n) ==
  m.k = "map" /\ Key("ofType") \in DOMAIN m.v /\ m.v[Key("ofType")] = Str(n)

\* Some field of entry e, or some argument of a field of e, has ofType n.
RefersTo(e, n) ==
  /\ e.k = "map"
  /\ Key("fields") \in DOMAIN e.v
  /\ e.v[Key("fields")].k = "seq"
  /\ \E i \in DOMAIN e.v[Key("fields")].v :
       LET f == e.v[Key("fields")].v[i]
       IN \/ OfTypeIs(f, n)
          \/ /\ f.k = "map"
             /\ Key("args") \in DOMAIN f.v
             /\ f.v[Key("args")].k = "seq"
             /\ \E j \in DOMAIN f.v[Key("args")].v : OfTypeIs(f.v[Key("args")].v[j], n)

TypeNameSet == {"A", "B", "C"}

\* The sort returned nil.
SortSucceeded == pc = "return" /\ stErr = "none"

\* C1: after a successful dependency sort, whenever a declared type E has a
\* field, or an argument of a field, whose ofType is the name of a declared
\* type D, D stands at an earlier index than E in the resulting types slice.
C1_DependencyBeforeDependent ==
  SortSucceeded =>
    \A i, j \in DOMAIN TypesIn : \A n \in TypeNameSet :
      (Declares(TypesIn[j], n) /\ RefersTo(TypesIn[i], n)) =>
        \E p, q \in DOMAIN TypesOut :
          p < q /\ TypesOut[p] = TypesIn[j] /\ TypesOut[q] = TypesIn[i]

\* C1's case: three types given with a dependent before its dependency, one
\* of the references made by an argument, and the sort succeeds.
C1_Witness ==
  /\ SortSucceeded
  /\ Len(TypesIn) = 3
  /\ \E i, j \in DOMAIN TypesIn :
       i < j /\ Declares(TypesIn[j], "C") /\ Declares(TypesIn[i], "B")
             /\ RefersTo(TypesIn[i], "C")
  /\ \E i, j \in DOMAIN TypesIn :
       Declares(TypesIn[j], "A") /\ Declares(TypesIn[i], "C") /\ RefersTo(TypesIn[i], "A")

\* The reference graph among the declared types: a -> b when an entry named
\* a refers to b and b is declared.
DeclaredIn(n) == \E i \in DOMAIN TypesIn : Declares(TypesIn[i], n)
Edge(a, b) ==
  DeclaredIn(b) /\ \E i \in DOMAIN TypesIn : Declares(TypesIn[i], a) /\ RefersTo(TypesIn[i], b)

RECURSIVE ReachableFrom(_)
ReachableFrom(S) ==
  LET T == S \cup {b \in TypeNameSet : \E a \in S : Edge(a, b)}
  IN IF T = S THEN S ELSE ReachableFrom(T)

HasCycle ==
  \E a, b \in TypeNameSet : Edge(a, b) /\ a \in ReachableFrom({b})

\* The sort returned, from a document with a types slice.
SortReturnedOnTypes ==
  pc = "return" /\ TypesKey \in DOMAIN stSchema0 /\ stSchema0[TypesKey].k = "seq"

\* C2: when the reference graph among the declared types has a cycle (a
\* mutual reference, a 3-cycle, a type referring to itself), the sort of a
\* document with its types slice and its query fails, with the
\* circular-dependency error; and the sort never succeeds with a types
\* slice shorter than the one it was given.
C2_CycleIsAnError ==
  SortReturnedOnTypes =>
    /\ HasCycle => stErr # "none"
    /\ (HasCycle /\ Key("query") \in DOMAIN stSchema0) => stErr = "circular dependency"
    /\ stErr = "none" => Len(TypesOut) = Len(TypesIn)

\* C2's case: the 3-cycle A -> B -> C -> A, the document holding a query.
C2_Witness ==
  /\ SortReturnedOnTypes
  /\ Key("query") \in DOMAIN stSchema0
  /\ Len(TypesIn) = 3
  /\ Edge("A", "B") /\ Edge("B", "C") /\ Edge("C", "A")
  /\ ~Edge("B", "A") /\ ~Edge("C", "C")
  /\ stErr = "circular dependency"

\* C4 as claimed: when the sort succeeds, only the value under types
\* changes; query and every other top-level key of the document are still
\* there with their values.
C4_OnlyTypesChanges ==
  SortSucceeded =>
    \A key \in DOMAIN stSchema0 \ {TypesKey} :
      key \in DOMAIN stSchema /\ stSchema[key] = stSchema0[key]

\* ---- the Deep Merger (C3), under SpecMerge

\* r is what the claim says merge(d, s) is.
RECURSIVE IsMergeOf(_, _, _)
IsMergeOf(r, d, s) ==
  /\ DOMAIN r = DOMAIN d \cup DOMAIN s
  /\ \A key \in DOMAIN d \ DOMAIN s : r[key] = d[key]
  /\ \A key \in DOMAIN s :
       IF key \in DOMAIN d /\ d[key].k = "map" /\ s[key].k = "map"
       THEN r[key].k = "map" /\ IsMergeOf(r[key].v, d[key].v, s[key].v)
       ELSE IF key \in DOMAIN d /\ d[key].k = "seq" /\ s[key].k = "seq"
       THEN /\ r[key].k = "seq"
            /\ Len(r[key].v) = Len(d[key].v) + Len(s[key].v)
            /\ \A i \in DOMAIN d[key].v : r[key].v[i] = d[key].v[i]
            /\ \A i \in DOMAIN s[key].v : r[key].v[Len(d[key].v) + i] = s[key].v[i]
       ELSE r[key] = s[key]

TreeReturnedOn(ps) ==
  /\ pc = "return"
  /\ bsBasePath = <<"", "p">>
  /\ bsStripPrefix = TRUE
  /\ bsParams = ps

UserParams ==
  << Param(<<"", "p", "user", "age">>, "30"),
     Param(<<"", "p", "user", "name">>, "\"Ann\"") >>

\* C5 as claimed: /p/user/name = "Ann" and /p/user/age = 30 assemble to
\* {"user": {"name": "Ann", "age": 30}}, a mapping keyed by the segments.
C5_UserIsMapping ==
  TreeReturnedOn(UserParams) =>
    bsTree = (Key("user") :> MapN(Key("name") :> Str("Ann") @@ Key("age") :> Num("30")))

\* C5 amended: they assemble to {"user": ["Ann", 30]}, the two elements in
\* either order: the two single-segment children of user have slash-count
\* 0, so they are emitted as a sequence of their parsed values and their
\* segment names are dropped.
C5_UserIsSequence ==
  TreeReturnedOn(UserParams) =>
    \/ bsTree = (Key("user") :> SeqN(<<Str("Ann"), Num("30")>>))
    \/ bsTree = (Key("user") :> SeqN(<<Num("30"), Str("Ann")>>))

C5_Witness ==
  /\ TreeReturnedOn(UserParams)
  /\ bsTree = (Key("user") :> SeqN(<<Str("Ann"), Num("30")>>))

DirectParams ==
  << Param(<<"", "p", "a">>, "1"), Param(<<"", "p", "b">>, "2") >>

\* C6 as claimed: /p/a = "1" and /p/b = "2" assemble to {"items": [1, 2]},
\* the two elements in either order.
C6_DirectChildrenAreItems ==
  TreeReturnedOn(DirectParams) =>
    \/ bsTree = (Key("items") :> SeqN(<<Num("1"), Num("2")>>))
    \/ bsTree = (Key("items") :> SeqN(<<Num("2"), Num("1")>>))

\* C6 amended: they assemble to {"a": 1, "b": 2}: each direct child of the
\* prefix is a level of its own and is emitted under its own segment name,
\* its value parsed as a JSON number; no items key is made.
C6_DirectChildrenAreKeys ==
  TreeReturnedOn(DirectParams) =>
    bsTree = (Key("a") :> Num("1") @@ Key("b") :> Num("2"))

C6_Witness ==
  /\ TreeReturnedOn(DirectParams)
  /\ DOMAIN bsTree = {Key("a"), Key("b")}

\* The root level of the call: the parameters whose relative path is empty.
RootParams ==
  {bsParams[i] : i \in {j \in DOMAIN bsParams :
       extractRelativePath(bsParams[j].Name, bsBasePath, bsStripPrefix) = <<"">>}}

\* C7 as claimed: a root level of one entry puts the entry's parsed value
\* under the last segment of its full key; a root level of N > 1 entries
\* puts under items a sequence of exactly N parsed values, one per entry.
C7_RootLevel ==
  pc = "return" =>
    /\ \A e \in RootParams :
         RootParams = {e} =>
           /\ Key(e.Name[Len(e.Name)]) \in DOMAIN bsTree
           /\ bsTree[Key(e.Name[Len(e.Name)])] = parseParameterValue(e.Value)
    /\ Cardinality(RootParams) > 1 =>
         /\ Key("items") \in DOMAIN bsTree
         /\ bsTree[Key("items")].k = "seq"
         /\ \E f \in Perms(RootParams) :
              bsTree[Key("items")].v = [i \in DOMAIN f |-> parseParameterValue(f[i].Value)]

\* ---- the facade (C8, C9, C10), under SpecBuild

\* The parameters the call fetches for the prefix at index j.
Fetched(j) == StoreUnder(opts.Prefixes[j])

RelativeOf(p, j) == extractRelativePath(p.Name, opts.Prefixes[j], opts.StripPrefix)

\* The top-level rule keys parameter p of prefix j maps to: the keys of its
\* mapping, or its own key when its value is a sequence.
RuleKeys(p, j) ==
  IF yamlUnmarshalMap(p.Value).ok THEN DOMAIN yamlUnmarshalMap(p.Value).m
  ELSE IF yamlUnmarshalList(p.Value).ok THEN {RelativeOf(p, j)}
  ELSE {}

NoFetchFailed == \A c \in DOMAIN calls : calls[c].ok

\* A YAML-rules build whose parameters are all flat and all parse, and whose
\* fetches all succeed, has returned.
CleanYAMLBuildDone ==
  /\ pc = "done"
  /\ opts.YAMLRules
  /\ NoFetchFailed
  /\ \A j \in DOMAIN opts.Prefixes : \A p \in Fetched(j) :
       /\ Len(RelativeOf(p, j)) = 1
       /\ yamlUnmarshalMap(p.Value).ok \/ yamlUnmarshalList(p.Value).ok

\* Two parameters of the build map to the same top-level rule key.
SameRuleKeyTwice ==
  \E j1, j2 \in DOMAIN opts.Prefixes : \E p1 \in Fetched(j1), p2 \in Fetched(j2) :
    p1.Name # p2.Name /\ RuleKeys(p1, j1) \cap RuleKeys(p2, j2) # {}

\* C8 as claimed: a YAML-rules build in which two parameters map to the same
\* top-level rule key fails with the duplicate-key error and returns no
\* document, under one prefix or two, for sequences and for mappings.
C8_DuplicateKeyRejected ==
  (CleanYAMLBuildDone /\ SameRuleKeyTwice) =>
    ret.err.kind = "duplicate" /\ ret.bytes = <<>>

\* C9: prefixes are fetched and merged one at a time in the order of the
\* list; a failed fetch is the last call the build makes to the store, it
\* ends the build at once with an error naming that prefix, and nothing is
\* merged or serialized after it.
C9_FetchInOrderAbortOnFailure ==
  /\ merges = [i \in 1..Len(merges) |-> i]
  /\ \A c \in DOMAIN calls :
       /\ calls[c].idx \in DOMAIN opts.Prefixes
       /\ calls[c].idx <= Len(merges) + 1
       /\ \A d \in DOMAIN calls : c < d => calls[c].idx <= calls[d].idx
  /\ \A k \in DOMAIN merges : \E c \in DOMAIN calls : calls[c].idx = k /\ calls[c].ok
  /\ \A c \in DOMAIN calls :
       ~calls[c].ok =>
         /\ c = Len(calls)
         /\ pc = "done"
         /\ ret = [bytes |-> <<>>, err |-> Error("fetch", opts.Prefixes[calls[c].idx])]
         /\ Len(merges) = calls[c].idx - 1

\* C9's case: the first of two prefixes was fetched and merged, the fetch
\* of the second failed.
C9_Witness ==
  /\ pc = "done"
  /\ Len(opts.Prefixes) = 2
  /\ merges = <<1>>
  /\ configMap # EmptyMap
  /\ calls[Len(calls)] = [idx |-> 2, ok |-> FALSE]

\* Prefix j holds a parameter on a nested path.
NestedIn(j) == \E p \in Fetched(j) : Len(RelativeOf(p, j)) > 1

\* Prefix j holds a value that is neither a mapping nor a sequence.
UnparsableIn(j) ==
  \E p \in Fetched(j) : ~yamlUnmarshalMap(p.Value).ok /\ ~yamlUnmarshalList(p.Value).ok

\* Prefix j holds a sequence whose key an earlier parameter of the prefix
\* has already put in the document.
DuplicateIn(j) ==
  \E p, q \in Fetched(j) :
    /\ NameRank(p.Name) < NameRank(q.Name)
    /\ ~yamlUnmarshalMap(q.Value).ok /\ yamlUnmarshalList(q.Value).ok
    /\ RelativeOf(q, j) \in RuleKeys(p, j)

\* No fetched parameter makes a top-level key types.
NoTypesKey ==
  \A j \in DOMAIN opts.Prefixes : \A p \in Fetched(j) : RelativeOf(p, j)[1] # "types"

\* A failure the inputs and the store calls show.
BuildFailure ==
  \/ ~NoFetchFailed
  \/ /\ opts.YAMLRules
     /\ \E j \in DOMAIN opts.Prefixes : NestedIn(j) \/ UnparsableIn(j) \/ DuplicateIn(j)
  \/ ~opts.YAMLRules /\ opts.SortByDependencies /\ NoTypesKey

\* C10: BuildConfigFromPrefixes returns either a document and no error (the
\* marshalled configMap, every prefix merged) or an error and no bytes; when
\* a fetch, a YAML-rules parse, the nested-path check, the duplicate-key
\* check or the sort fails, it returns no document.
C10_DocumentOrError ==
  pc = "done" =>
    /\ (ret.bytes = <<>>) # (ret.err = NoError)
    /\ BuildFailure => (ret.bytes = <<>> /\ ret.err # NoError)
    /\ ret.err.kind \in {"fetch", "nested", "parse", "duplicate", "sort"} => ret.bytes = <<>>
    /\ ret.err = NoError =>
         /\ Len(ret.bytes) = 1
         /\ ret.bytes[1].doc = configMap
         /\ Len(merges) = Len(opts.Prefixes)

\* C10's case: the first prefix is merged into a document that is not
\* empty, the second fails the duplicate-key check, and no bytes return.
C10_Witness ==
  /\ pc = "done"
  /\ opts.YAMLRules
  /\ merges = <<1>>
  /\ configMap # EmptyMap
  /\ ret.err.kind = "duplicate"
  /\ ret.bytes = <<>>

\* ---- the Tree Assembler's levels (C11, C12, C13, C15), under SpecTree

\* The levels of the call other than the root level.
NestedLevels == DOMAIN bsLevels \ {Key(".")}

\* The child keys of level L, and the order the call visited them in.
ChildrenOf(L) == DOMAIN bsLevels[L]
ChildOrder(L) == Restrict(bsChildPerm, ChildrenOf(L))

\* strings.Count(childPath, "/") = 0 for every child of L.
AllSlashCountZero(L) == \A c \in ChildrenOf(L) : Len(c) = 1

\* C11: for a level other than the root with more than one child, the tree
\* holds under the level's key a Sequence with exactly one element per
\* child (the children's parsed values) if every child key has slash-count
\* 0, and otherwise (differing depths, or one depth above 0) a Mapping
\* whose keys are the first segments of the child keys.
C11_SequenceIffAllDepthZero ==
  pc = "return" =>
    \A L \in NestedLevels :
      Cardinality(ChildrenOf(L)) > 1 =>
        /\ L \in DOMAIN bsTree
        /\ IF AllSlashCountZero(L)
           THEN /\ bsTree[L].k = "seq"
                /\ Len(bsTree[L].v) = Cardinality(ChildrenOf(L))
                /\ bsTree[L].v =
                     [i \in DOMAIN ChildOrder(L) |->
                        parseParameterValue(bsLevels[L][ChildOrder(L)[i]].Value)]
           ELSE /\ bsTree[L].k = "map"
                /\ DOMAIN bsTree[L].v = {Key(c[1]) : c \in ChildrenOf(L)}

\* C11's case: a level whose children all have one depth above 0 has
\* returned as a Mapping.
C11_Witness ==
  /\ pc = "return"
  /\ \E L \in NestedLevels :
       /\ Cardinality(ChildrenOf(L)) > 1
       /\ \A c \in ChildrenOf(L) : Len(c) = 2
       /\ bsTree[L].k = "map"

\* What a tree holds at a path of segments, Absent where it holds nothing.
Absent == [k |-> "absent", v |-> <<>>]

RECURSIVE At(_, _)
At(value, path) ==
  IF path = <<>> THEN value
  ELSE IF value.k = "map" /\ Key(path[1]) \in DOMAIN value.v
       THEN At(value.v[Key(path[1])], Tail(path))
       ELSE Absent

IsScalar(value) == value.k \in {"str", "num"}

IsProperPrefix(a, b) == Len(a) < Len(b) /\ SubSeq(b, 1, Len(a)) = a

\* The place of child key c in bsChildPerm: the children of one level were
\* visited in the order of their places.
Pos(c) == CHOOSE i \in DOMAIN bsChildPerm : bsChildPerm[i] = c

\* Level L went to the nested-Mapping builder.
BuiltNested(L) == Cardinality(ChildrenOf(L)) > 1 /\ ~AllSlashCountZero(L)

\* In level L child c1, a scalar, was visited before child c2, whose path
\* goes through c1's segment, and no child visited after c2 writes on c2's
\* path again.
ScalarThenThrough(L, c1, c2) ==
  /\ IsProperPrefix(c1, c2)
  /\ BuiltNested(L)
  /\ IsScalar(parseParameterValue(bsLevels[L][c1].Value))
  /\ Pos(c1) < Pos(c2)
  /\ \A c3 \in ChildrenOf(L) :
       (IsProperPrefix(c3, c2) \/ IsProperPrefix(c2, c3)) => Pos(c3) < Pos(c2)

\* C12: in the nested-Mapping builder, when a segment holds a scalar and a
\* child visited later goes through that segment, the call returns (it does
\* not fail), the segment holds a Mapping, the later child's value is
\* beneath it, and the earlier scalar is not in the level's tree any more.
C12_ScalarReplacedByMapping ==
  pc = "return" =>
    \A L \in NestedLevels : \A c1, c2 \in ChildrenOf(L) :
      ScalarThenThrough(L, c1, c2) =>
        /\ L \in DOMAIN bsTree
        /\ At(bsTree[L], c1).k = "map"
        /\ At(bsTree[L], c2) = parseParameterValue(bsLevels[L][c2].Value)
        /\ At(bsTree[L], c1) # parseParameterValue(bsLevels[L][c1].Value)

\* C12's case: a scalar child and a later child through its segment, and
\* the call has returned.
C12_Witness ==
  /\ pc = "return"
  /\ \E L \in NestedLevels : \E c1, c2 \in ChildrenOf(L) :
       /\ ScalarThenThrough(L, c1, c2)
       /\ At(bsTree[L], c1).k = "map"

\* Every key of every Mapping in a value, at any depth.
RECURSIVE KeysIn(_)
KeysIn(value) ==
  IF value.k = "map"
  THEN DOMAIN value.v \cup UNION {KeysIn(value.v[key]) : key \in DOMAIN value.v}
  ELSE IF value.k = "seq"
       THEN UNION {KeysIn(value.v[i]) : i \in DOMAIN value.v}
       ELSE {}

\* The path segments of the call's parameter keys.
SegmentsOfParams ==
  UNION {{bsParams[i].Name[j] : j \in DOMAIN bsParams[i].Name} : i \in DOMAIN bsParams}

\* Every parameter of the call is in the hierarchy under the base path, as
\* the store returns them for it.
ParamsUnderBasePath ==
  LET base == TrimSuffixSlash(bsBasePath)
  IN \A i \in DOMAIN bsParams :
       /\ Len(bsParams[i].Name) > Len(base)
       /\ SubSeq(bsParams[i].Name, 1, Len(base)) = base

\* C13 as claimed, for parameters in the hierarchy under the base path:
\* every key of every Mapping of the tree is a path segment of some
\* parameter's key or the root key items; when no path segment is ".", the
\* level sentinel "." is no key of the tree.
C13_KeysArePathSegments ==
  (pc = "return" /\ ParamsUnderBasePath /\ "." \notin SegmentsOfParams) =>
    /\ \A key \in KeysIn(MapN(bsTree)) : key[1] \in SegmentsOfParams \cup {"items"}
    /\ Key(".") \notin KeysIn(MapN(bsTree))

\* ---- the Dependency Sorter on acyclic input (C14), under SpecSort

\* q holds each element of p exactly once.
IsPermutationOf(q, p) ==
  /\ Len(q) = Len(p)
  /\ \E f \in Perms(DOMAIN p) : q = [i \in DOMAIN p |-> p[f[i]]]

\* C14 as claimed: on a document with a query and a types slice whose
\* reference graph has no cycle, two entries of one name and entries with
\* no string name included, the sort does not return the
\* circular-dependency error: it succeeds, and the types slice it leaves
\* holds each entry it was given exactly once.
C14_NoCycleNoCyclicError ==
  (SortReturnedOnTypes /\ Key("query") \in DOMAIN stSchema0 /\ ~HasCycle) =>
    /\ stErr = "none"
    /\ IsPermutationOf(TypesOut, TypesIn)

\* ---- two runs of the Tree Assembler (C15), under SpecTree

\* a and b have the same keys, the same shape at every path and the same
\* scalar values; the elements of a Sequence may stand in another order.
RECURSIVE SameUpToSequenceOrder(_, _)
SameUpToSequenceOrder(a, b) ==
  IF a.k # b.k THEN FALSE
  ELSE IF a.k = "map"
       THEN /\ DOMAIN a.v = DOMAIN b.v
            /\ \A key \in DOMAIN a.v : SameUpToSequenceOrder(a.v[key], b.v[key])
       ELSE IF a.k = "seq"
            THEN /\ Len(a.v) = Len(b.v)
                 /\ \E f \in Perms(DOMAIN a.v) :
                      \A i \in DOMAIN a.v : SameUpToSequenceOrder(a.v[i], b.v[f[i]])
            ELSE a = b

\* C15 as claimed: the tree a call of buildStructure returned and the tree
\* of any other run on the same parameter list, prefix and stripPrefix
\* flag, whatever order that run visits the levels and the children in,
\* are the same up to the order of Sequence elements.
C15_SameTreeWhateverTheOrder ==
  pc = "return" =>
    \A levelOrder \in Perms(DOMAIN bsLevels), childPerm \in Perms(ChildKeys(bsLevels)) :
      SameUpToSequenceOrder(
        MapN(bsTree),
        MapN(buildStructure(bsParams, bsBasePath, bsStripPrefix, levelOrder, childPerm)))

====
